---- MODULE Spec2Model ----
(***************************************************************************)
(* Model of the EB_PSI easyblock (easybuild/easyblocks/p/psi.py): the      *)
(* configure, install, sanity-check and module-generation hooks that       *)
(* specialise ConfigureMake for the PSI quantum chemistry package.         *)
(*                                                                         *)
(* Strings are TLA+ strings, so formatting, path joining, stripping and    *)
(* splitting are computed character by character as Python computes them.  *)
(* A Python value that may be None is a sequence: << >> is None and <<s>>  *)
(* is the string s.                                                        *)
(***************************************************************************)
EXTENDS Integers, Sequences, FiniteSets, TLC

VARIABLES
    pc,                  \* position in the host-dictated order of steps
    builds,              \* number of EB_PSI objects constructed so far
    ec,                  \* the parsed easyconfig (never modified)
    cfg,                 \* self.cfg: configopts, start_dir
    version,             \* self.version
    toolchain_options,   \* self.toolchain.options
    software_root,       \* what get_software_root returns per name
    environ,             \* os.environ
    fs,                  \* file system: normalised directory path -> contents
    cwd,                 \* current working directory
    psi_srcdir,          \* self.psi_srcdir
    install_psi_objdir,  \* self.install_psi_objdir
    install_psi_srcdir,  \* self.install_psi_srcdir
    calls,               \* calls made to the host framework and to shutil
    custom_paths,        \* argument handed to the inherited sanity check
    module_txt,          \* text returned by make_module_extra
    error                \* the exception that ended the build, if any

vars == <<pc, builds, ec, cfg, version, toolchain_options, software_root,
          environ, fs, cwd, psi_srcdir, install_psi_objdir,
          install_psi_srcdir, calls, custom_paths, module_txt, error>>

\* Number of times the host constructs an EB_PSI object (build invocations).
MaxBuilds == 2

-----------------------------------------------------------------------------
(* Python values and string primitives *)

None == << >>

Val(s) == <<s>>

\* Python truth value of an optional string: None and '' are false.
Truthy(v) == v # None /\ v[1] # ""

\* '%s' % v
PyStr(v) == IF v = None THEN "None" ELSE v[1]

sep == "/"

\* s[i:j] on one character
CharAt(s, i) == SubSeq(s, i, i)

\* str.rstrip(chars) for a single character
RECURSIVE rstrip(_, _)
rstrip(s, c) ==
    IF Len(s) > 0 /\ CharAt(s, Len(s)) = c
    THEN rstrip(SubSeq(s, 1, Len(s) - 1), c)
    ELSE s

\* str.rfind(c) + 1: index just after the last c, 1 when there is none
RECURSIVE AfterLast(_, _, _)
AfterLast(s, c, i) ==
    IF i = 0 THEN 1
    ELSE IF CharAt(s, i) = c THEN i + 1
    ELSE AfterLast(s, c, i - 1)

\* posixpath.basename
basename(p) == SubSeq(p, AfterLast(p, sep, Len(p)), Len(p))

\* posixpath.join for two components
path_join(a, b) ==
    IF Len(b) > 0 /\ CharAt(b, 1) = sep THEN b
    ELSE IF a = "" \/ CharAt(a, Len(a)) = sep THEN a \o b
    ELSE a \o sep \o b

\* str.find(c): index of the first c from i on, Len(s) + 1 when there is none
RECURSIVE FirstIndex(_, _, _)
FirstIndex(s, c, i) ==
    IF i > Len(s) THEN Len(s) + 1
    ELSE IF CharAt(s, i) = c THEN i
    ELSE FirstIndex(s, c, i + 1)

\* s.split(c)[0]
split_first(s, c) == SubSeq(s, 1, FirstIndex(s, c, 1) - 1)

-----------------------------------------------------------------------------
(* The host's view of the build: directories, environment, file system *)

builddir == "/build"

installdir == "/sw/PSI"

\* the directory a path names: trailing separators do not matter
RealPath(p) == IF rstrip(p, sep) = "" THEN sep ELSE rstrip(p, sep)

\* os.getenv
getenv(var) == IF var \in DOMAIN environ THEN Val(environ[var]) ELSE None

\* env.setvar on an environment
setvar(e, var, value) ==
    [v \in DOMAIN e \cup {var} |-> IF v = var THEN value ELSE e[v]]

\* the variables this easyblock exports
WrittenVars == {"PYTHON", "PSI_OBJ_INSTALL_DIR", "PSI_SRC_INSTALL_DIR"}

\* get_software_root
get_software_root(name) == software_root[name]

\* self.cfg.update('configopts', value): configopts is kept as the sequence
\* of the values appended to it
cfg_update(opts, value) == Append(opts, value)

\* a directory tree written into the file system
WriteDir(f, p, content) ==
    [q \in DOMAIN f \cup {p} |-> IF q = p THEN content ELSE f[q]]

\* the file system the host hands to a build: build and install directories
\* exist and the sources are unpacked in start_dir
FreshFS(start_dir) ==
    WriteDir(WriteDir(WriteDir([q \in {sep} |-> "root"],
                               builddir, "builddir"),
                      installdir, "installdir"),
             RealPath(start_dir), "sources")

-----------------------------------------------------------------------------
(* configure_step *)

\* exceptions are records; log.error raises an EasyBuildError with the message
NoExc == [type |-> "none", msg |-> ""]

EasyBuildError(msg) == [type |-> "EasyBuildError", msg |-> msg]

\* os.makedirs(objdir); os.chdir(objdir) inside try/except OSError: the
\* OSError text, or None when the directory was created and entered.
\* io is what the operating system does beyond the existence check.
prepare_oserror(f, objdir, io) ==
    IF RealPath(objdir) \in DOMAIN f THEN Val("File exists")
    ELSE IF io = "makedirs" THEN Val("Permission denied")
    ELSE IF io = "chdir" THEN Val("Not a directory")
    ELSE None

\* fault: the OSError is swallowed instead of being reported as fatal
prepare_error_swallowed(f, objdir, io) == NoExc

\* except OSError, err: self.log.error(...)
prepare_error(f, objdir, io) ==
    IF prepare_oserror(f, objdir, io) # None
    THEN EasyBuildError("Failed to prepare for configuration of PSI build: "
                        \o PyStr(prepare_oserror(f, objdir, io)))
    ELSE NoExc

\* the file system after the try block: makedirs has created objdir unless
\* it was makedirs that failed
prepare_fs(f, objdir, io) ==
    IF RealPath(objdir) \in DOMAIN f \/ io = "makedirs" THEN f
    ELSE WriteDir(f, RealPath(objdir), "empty")

\* the working directory after the try block: chdir has entered objdir
\* unless an OSError was raised before it completed
prepare_cwd(f, objdir, io) ==
    IF prepare_oserror(f, objdir, io) # None THEN cwd ELSE objdir

\* fault: the two branches exchanged
fcompvar_swapped(usempi) == IF usempi THEN "F77" ELSE "F77_SEQ"

\* the Fortran compiler variable
fcompvar(usempi) == IF usempi THEN "F77_SEQ" ELSE "F77"

\* fault: LAPACK listed before BLAS
opt_vars_reordered(usempi) ==
    << <<"cc", "CC">>,
       <<"cxx", "CXX">>,
       <<"fc", fcompvar(usempi)>>,
       <<"libdirs", "LDFLAGS">>,
       <<"lapack", "LIBLAPACK_MT">>,
       <<"blas", "LIBBLAS_MT">> >>

\* the option table
opt_vars(usempi) ==
    << <<"cc", "CC">>,
       <<"cxx", "CXX">>,
       <<"fc", fcompvar(usempi)>>,
       <<"libdirs", "LDFLAGS">>,
       <<"blas", "LIBBLAS_MT">>,
       <<"lapack", "LIBLAPACK_MT">> >>

\* "--with-%s='%s'" % (opt, os.getenv(var))
with_flag(opt, var) == "--with-" \o opt \o "='" \o PyStr(getenv(var)) \o "'"

\* the for loop over opt_vars
RECURSIVE update_opt_vars(_, _)
update_opt_vars(opts, ov) ==
    IF ov = << >> THEN opts
    ELSE update_opt_vars(cfg_update(opts, with_flag(Head(ov)[1], Head(ov)[2])),
                         Tail(ov))

\* "--with-opt='%s -DMPICH_IGNORE_CXX_SEEK'" % os.getenv('CFLAGS')
with_opt == "--with-opt='" \o PyStr(getenv("CFLAGS")) \o " -DMPICH_IGNORE_CXX_SEEK'"

\* if not pythonroot: self.log.error(...)
python_error(pythonroot) ==
    IF ~Truthy(pythonroot) THEN EasyBuildError("Python module not loaded.")
    ELSE NoExc

\* os.path.join(pythonroot, 'bin', 'python')
python_bin(pythonroot) == path_join(path_join(pythonroot[1], "bin"), "python")

\* fault: the Boost root is not checked
boost_error_unchecked(boostroot) == NoExc

\* if not boostroot: self.log.error(...)
boost_error(boostroot) ==
    IF ~Truthy(boostroot) THEN EasyBuildError("Boost module not loaded.")
    ELSE NoExc

\* "--with-boost=%s" % boostroot
with_boost(boostroot) == "--with-boost=" \o PyStr(boostroot)

\* os.path.basename(self.cfg['start_dir'].rstrip(os.sep))
srcdir_name(start_dir) == basename(rstrip(start_dir, sep))

\* os.path.join(self.installdir, 'obj')
objdir_install_path == path_join(installdir, "obj")

\* fault: a fixed name instead of the name of the source directory
srcdir_install_path_fixed(srcdir) == path_join(installdir, "src")

\* os.path.join(self.installdir, self.psi_srcdir)
srcdir_install_path(srcdir) == path_join(installdir, srcdir)

\* configopts once all flags are appended
full_configopts(opts, usempi, boostroot) ==
    cfg_update(
        cfg_update(
            cfg_update(update_opt_vars(opts, opt_vars(usempi)), with_opt),
            with_boost(boostroot)),
        "--with-plugins")

\* super(EB_PSI, self).configure_step(cmd_prefix=...): the host runs the
\* configure command with the options and environment of that moment
parent_configure(opts, e, prefix) ==
    [call |-> "configure_step", configopts |-> opts, environ |-> e,
     cmd_prefix |-> prefix]

Abort(exc) ==
    /\ pc' = "failed"
    /\ error' = exc

configure_step(io, parent_ok) ==
    LET objdir == path_join(builddir, "obj")
        exc0 == prepare_error(fs, objdir, io)
        fs1 == prepare_fs(fs, objdir, io)
        usempi == toolchain_options.usempi
        opts1 == cfg_update(update_opt_vars(cfg.configopts, opt_vars(usempi)),
                            with_opt)
        pythonroot == get_software_root("Python")
        boostroot == get_software_root("Boost")
        env1 == setvar(environ, "PYTHON", python_bin(pythonroot))
        opts3 == full_configopts(cfg.configopts, usempi, boostroot)
        srcdir == srcdir_name(cfg.start_dir)
        env3 == setvar(setvar(env1, "PSI_OBJ_INSTALL_DIR", objdir_install_path),
                       "PSI_SRC_INSTALL_DIR", srcdir_install_path(srcdir))
    IN
    /\ pc = "init"
    /\ UNCHANGED <<builds, ec, version, toolchain_options, software_root,
                   custom_paths, module_txt>>
    /\ IF exc0.type # "none" THEN
            /\ Abort(exc0)
            /\ fs' = fs1
            /\ UNCHANGED <<cfg, environ, cwd, psi_srcdir, install_psi_objdir,
                           install_psi_srcdir, calls>>
       ELSE IF python_error(pythonroot).type # "none" THEN
            /\ Abort(python_error(pythonroot))
            /\ fs' = fs1
            /\ cwd' = prepare_cwd(fs, objdir, io)
            /\ cfg' = [cfg EXCEPT !.configopts = opts1]
            /\ UNCHANGED <<environ, psi_srcdir, install_psi_objdir,
                           install_psi_srcdir, calls>>
       ELSE IF boost_error(boostroot).type # "none" THEN
            /\ Abort(boost_error(boostroot))
            /\ fs' = fs1
            /\ cwd' = prepare_cwd(fs, objdir, io)
            /\ cfg' = [cfg EXCEPT !.configopts = opts1]
            /\ environ' = env1
            /\ UNCHANGED <<psi_srcdir, install_psi_objdir, install_psi_srcdir,
                           calls>>
       ELSE /\ fs' = fs1
            /\ cwd' = prepare_cwd(fs, objdir, io)
            /\ cfg' = [cfg EXCEPT !.configopts = opts3]
            /\ environ' = env3
            /\ psi_srcdir' = Val(srcdir)
            /\ install_psi_objdir' = Val(objdir_install_path)
            /\ install_psi_srcdir' = Val(srcdir_install_path(srcdir))
            /\ calls' = Append(calls, parent_configure(opts3, env3, cfg.start_dir))
            /\ IF parent_ok
               THEN pc' = "configured" /\ UNCHANGED error
               ELSE Abort(EasyBuildError("configure failed"))

-----------------------------------------------------------------------------
(* build_step (inherited) *)

\* ConfigureMake.build_step runs make in the object directory
build_step(ok) ==
    /\ pc = "configured"
    /\ fs' = WriteDir(fs, RealPath(cwd), "objects")
    /\ calls' = Append(calls, [call |-> "build_step"])
    /\ IF ok THEN pc' = "built" /\ UNCHANGED error
       ELSE Abort(EasyBuildError("build failed"))
    /\ UNCHANGED <<builds, ec, cfg, version, toolchain_options, software_root,
                   environ, cwd, psi_srcdir, install_psi_objdir,
                   install_psi_srcdir, custom_paths, module_txt>>

-----------------------------------------------------------------------------
(* install_step *)

\* shutil.copytree(src, dst) of Python 2: os.listdir(src) and os.makedirs(dst)
\* raise OSError before anything is copied; an error met while copying the
\* entries is collected and raised at the end as shutil.Error, which is an
\* EnvironmentError but no OSError. io is what the operating system does
\* beyond the existence checks.
copytree_exc(f, src, dst, io) ==
    IF RealPath(src) \notin DOMAIN f
    THEN [type |-> "OSError", msg |-> "No such file or directory"]
    ELSE IF RealPath(dst) \in DOMAIN f
    THEN [type |-> "OSError", msg |-> "File exists"]
    ELSE IF io = "OSError"
    THEN [type |-> "OSError", msg |-> "Permission denied"]
    ELSE IF io = "Error"
    THEN [type |-> "shutil.Error", msg |-> "Input/output error"]
    ELSE NoExc

copytree_fs(f, src, dst, io) ==
    IF copytree_exc(f, src, dst, io).type = "OSError" THEN f
    ELSE IF copytree_exc(f, src, dst, io).type = "shutil.Error"
    THEN WriteDir(f, RealPath(dst), "partial")
    ELSE WriteDir(f, RealPath(dst), f[RealPath(src)])

copytree_call(f, src, dst, io) ==
    [call |-> "copytree", src |-> src, dst |-> dst,
     exc |-> copytree_exc(f, src, dst, io).type]

\* fault: the source directory is left out of the loop
copy_subdirs_obj_only(srcdir) == <<"obj">>

\* for subdir in ['obj', self.psi_srcdir]
copy_subdirs(srcdir) == <<"obj", srcdir>>

\* the loop body's source and destination
copy_src(subdir) == path_join(builddir, subdir)

copy_dst(subdir) == path_join(installdir, subdir)

\* the loop: the state [fs, calls, exc] after copying the subdirs in turn,
\* stopping at the first exception
RECURSIVE copy_loop(_, _, _)
copy_loop(st, subdirs, ios) ==
    IF subdirs = << >> \/ st.exc.type # "none" THEN st
    ELSE LET src == copy_src(Head(subdirs))
             dst == copy_dst(Head(subdirs))
         IN copy_loop(
                [fs |-> copytree_fs(st.fs, src, dst, Head(ios)),
                 calls |-> Append(st.calls,
                                  copytree_call(st.fs, src, dst, Head(ios))),
                 exc |-> copytree_exc(st.fs, src, dst, Head(ios))],
                Tail(subdirs), Tail(ios))

\* except OSError, err: self.log.error(...); any other exception propagates
install_error(exc) ==
    IF exc.type = "OSError"
    THEN EasyBuildError("Failed to copy obj and unpacked sources to install dir: "
                        \o exc.msg)
    ELSE exc

\* super(EB_PSI, self).install_step(): make install puts the binaries in place
parent_install(f) == WriteDir(f, path_join(installdir, "bin"), "binaries")

install_step(parent_ok, io1, io2) ==
    LET fs0 == parent_install(fs)
        calls0 == Append(calls, [call |-> "install_step", ok |-> parent_ok])
        st == copy_loop([fs |-> fs0, calls |-> calls0, exc |-> NoExc],
                        copy_subdirs(psi_srcdir[1]), <<io1, io2>>)
    IN
    /\ pc = "built"
    /\ UNCHANGED <<builds, ec, cfg, version, toolchain_options, software_root,
                   environ, cwd, psi_srcdir, install_psi_objdir,
                   install_psi_srcdir, custom_paths, module_txt>>
    /\ IF ~parent_ok THEN
            /\ Abort(EasyBuildError("install failed"))
            /\ fs' = fs
            /\ calls' = calls0
       ELSE /\ fs' = st.fs
            /\ calls' = st.calls
            /\ IF st.exc.type # "none" THEN Abort(install_error(st.exc))
               ELSE pc' = "installed" /\ UNCHANGED error

-----------------------------------------------------------------------------
(* sanity_check_step *)

\* fault: the whole version instead of its first component
sanity_paths_full_version(ver) ==
    [files |-> <<"bin/psi" \o ver>>,
     dirs |-> <<"include", "share/psi">>]

\* the custom_paths dictionary
sanity_paths(ver) ==
    [files |-> <<"bin/psi" \o split_first(ver, ".")>>,
     dirs |-> <<"include", "share/psi">>]

sanity_check_step(ok) ==
    /\ pc = "installed"
    /\ custom_paths' = Val(sanity_paths(version))
    /\ calls' = Append(calls, [call |-> "sanity_check_step",
                               custom_paths |-> sanity_paths(version)])
    /\ IF ok THEN pc' = "checked" /\ UNCHANGED error
       ELSE Abort(EasyBuildError("Sanity check failed"))
    /\ UNCHANGED <<builds, ec, cfg, version, toolchain_options, software_root,
                   environ, fs, cwd, psi_srcdir, install_psi_objdir,
                   install_psi_srcdir, module_txt>>

-----------------------------------------------------------------------------
(* make_module_extra *)

\* self.moduleGenerator.set_environment(key, value): module text is kept as
\* the sequence of its statements
set_environment(key, value) ==
    <<[stmt |-> "setenv", key |-> key, value |-> value]>>

\* fault: the inherited text is dropped
module_extra_overwrite(txt) == set_environment("PSI4DATADIR", "$root/share/psi")

\* txt += ...
module_extra(txt) == txt \o set_environment("PSI4DATADIR", "$root/share/psi")

\* what the inherited make_module_extra may return
ParentTexts ==
    { << >>,
      <<[stmt |-> "setenv", key |-> "EBROOTPSI", value |-> "$root"]>>,
      <<[stmt |-> "setenv", key |-> "EBROOTPSI", value |-> "$root"],
        [stmt |-> "setenv", key |-> "PSI4DATADIR", value |-> "/old/share"]>> }

make_module_extra(txt) ==
    /\ pc = "checked"
    /\ module_txt' = Val(module_extra(txt))
    /\ calls' = Append(calls, [call |-> "make_module_extra", txt |-> txt])
    /\ pc' = "done"
    /\ UNCHANGED <<builds, ec, cfg, version, toolchain_options, software_root,
                   environ, fs, cwd, psi_srcdir, install_psi_objdir,
                   install_psi_srcdir, custom_paths, error>>

-----------------------------------------------------------------------------
(* __init__ and the initial state *)

\* the environment a build process starts with: what the toolchain set
ToolchainEnv(e) == [v \in DOMAIN e \ WrittenVars |-> e[v]]

\* fault: __init__ does not reset psi_srcdir
EB_PSI_init_stale(clean) ==
    /\ pc \in {"failed", "done"}
    /\ builds < MaxBuilds
    /\ builds' = builds + 1
    /\ pc' = "init"
    /\ cfg' = ec
    /\ version' = ec.version
    /\ install_psi_objdir' = None
    /\ install_psi_srcdir' = None
    /\ environ' = ToolchainEnv(environ)
    /\ fs' = IF clean THEN FreshFS(ec.start_dir) ELSE fs
    /\ cwd' = builddir
    /\ calls' = << >>
    /\ custom_paths' = None
    /\ module_txt' = None
    /\ error' = NoExc
    /\ UNCHANGED <<ec, toolchain_options, software_root, psi_srcdir>>

\* EB_PSI.__init__ for the next build invocation: a new object in a new
\* process; the host may or may not have cleaned the build and install
\* directories
EB_PSI_init(clean) ==
    /\ pc \in {"failed", "done"}
    /\ builds < MaxBuilds
    /\ builds' = builds + 1
    /\ pc' = "init"
    /\ cfg' = ec
    /\ version' = ec.version
    /\ psi_srcdir' = None
    /\ install_psi_objdir' = None
    /\ install_psi_srcdir' = None
    /\ environ' = ToolchainEnv(environ)
    /\ fs' = IF clean THEN FreshFS(ec.start_dir) ELSE fs
    /\ cwd' = builddir
    /\ calls' = << >>
    /\ custom_paths' = None
    /\ module_txt' = None
    /\ error' = NoExc
    /\ UNCHANGED <<ec, toolchain_options, software_root>>

\* values the toolchain and the easyconfig may give
OptStrings(S) == {None} \cup {Val(s) : s \in S}

EnvChoices ==
    [CC : {Val("gcc")},
     CXX : {Val("g++")},
     F77 : OptStrings({"gfortran", "mpif77"}),
     F77_SEQ : OptStrings({"gfortran"}),
     LDFLAGS : {Val("-L/sw/lib")},
     LIBBLAS_MT : {Val("-lopenblas")},
     LIBLAPACK_MT : {Val("-lopenblas")},
     CFLAGS : OptStrings({"", "-O2 -march=native"})]

EnvVarNames == {"CC", "CXX", "F77", "F77_SEQ", "LDFLAGS", "LIBBLAS_MT",
                "LIBLAPACK_MT", "CFLAGS"}

\* os.environ holding exactly the variables that are set
MakeEnviron(c) == [v \in {w \in EnvVarNames : c[w] # None} |-> c[v][1]]

StartDirs == {"/build/psi4.0b5", "/build/psi4.0b5/", "/build/sub/psi4", "/"}

Versions == {"4.0b5", "4", "10.2.1", ".5", ""}

Configopts == {<< >>, <<"--with-plugins">>}

Roots(p) == {None, Val(""), Val(p)}

Init ==
    /\ pc = "init"
    /\ builds = 1
    /\ ec \in [configopts : Configopts, start_dir : StartDirs,
               version : Versions]
    /\ cfg = ec
    /\ version = ec.version
    /\ toolchain_options \in [usempi : BOOLEAN]
    /\ software_root \in [Python : Roots("/sw/Python"), Boost : Roots("/sw/Boost")]
    /\ \E c \in EnvChoices : environ = MakeEnviron(c)
    /\ fs = FreshFS(ec.start_dir)
    /\ cwd = builddir
    /\ psi_srcdir = None
    /\ install_psi_objdir = None
    /\ install_psi_srcdir = None
    /\ calls = << >>
    /\ custom_paths = None
    /\ module_txt = None
    /\ error = NoExc

Next ==
    \/ \E io \in {"ok", "makedirs", "chdir"}, ok \in BOOLEAN :
          configure_step(io, ok)
    \/ \E ok \in BOOLEAN : build_step(ok)
    \/ \E ok \in BOOLEAN, io1, io2 \in {"ok", "OSError", "Error"} :
          install_step(ok, io1, io2)
    \/ \E ok \in BOOLEAN : sanity_check_step(ok)
    \/ \E txt \in ParentTexts : make_module_extra(txt)
    \/ \E clean \in BOOLEAN : EB_PSI_init(clean)

Spec == Init /\ [][Next]_vars

-----------------------------------------------------------------------------
(* Vocabulary of the properties *)

\* number of options the easyconfig itself gives
Before == Len(ec.configopts)

\* the options configure_step has appended so far in this build
Gained == SubSeq(cfg.configopts, Before + 1, Len(cfg.configopts))

\* the part of an option before its first '='
FlagName(flag) == split_first(flag, "=")

NoSep(s) == \A i \in 1..Len(s) : CharAt(s, i) # sep

AllSep(s) == \A i \in 1..Len(s) : CharAt(s, i) = sep

\* c is the last component of path p: p is a prefix ending in a separator
\* (or nothing), then c, then separators only
IsLastComponent(c, p) ==
    /\ NoSep(c)
    /\ c # "" \/ AllSep(p)
    /\ \E i \in 0..Len(p) :
          /\ i = 0 \/ CharAt(p, i) = sep
          /\ i + Len(c) <= Len(p)
          /\ SubSeq(p, i + 1, i + Len(c)) = c
          /\ AllSep(SubSeq(p, i + Len(c) + 1, Len(p)))

\* the last component of start_dir, found by search among its substrings
LastOfStartDir ==
    CHOOSE c \in {SubSeq(ec.start_dir, i, j) :
                    i \in 1..(Len(ec.start_dir) + 1), j \in 0..Len(ec.start_dir)} :
        IsLastComponent(c, ec.start_dir)

\* m is the part of version v before its first dot
IsMajor(m, v) ==
    /\ Len(m) <= Len(v)
    /\ SubSeq(v, 1, Len(m)) = m
    /\ \A i \in 1..Len(m) : CharAt(m, i) # "."
    /\ Len(m) = Len(v) \/ CharAt(v, Len(m) + 1) = "."

StartsWith(s, prefix) ==
    Len(s) >= Len(prefix) /\ SubSeq(s, 1, Len(prefix)) = prefix

\* the calls of one kind made so far in this build, in order
CallsOf(kind) == SelectSeq(calls, LAMBDA c : c.call = kind)

Missing(name) == ~Truthy(software_root[name])

-----------------------------------------------------------------------------
(* Properties *)

\* C1: once configure_step has assembled the flags, the third flag it
\* appended is --with-fc quoting the value of F77_SEQ when usempi is true and
\* the value of F77 when usempi is false (for a variable that is set), and it
\* is not the flag for the other variable's value when that value differs.
C1_FortranCompilerFlag ==
    LET chosen == IF toolchain_options.usempi THEN "F77_SEQ" ELSE "F77"
        other == IF toolchain_options.usempi THEN "F77" ELSE "F77_SEQ"
        flag == Gained[3]
    IN Len(Gained) >= 3 =>
          /\ FlagName(flag) = "--with-fc"
          /\ chosen \in DOMAIN environ =>
                flag = "--with-fc='" \o environ[chosen] \o "'"
          /\ (/\ other \in DOMAIN environ
              /\ chosen \in DOMAIN environ => environ[chosen] # environ[other])
             => flag # "--with-fc='" \o environ[other] \o "'"

C1_Witness ==
    /\ pc = "configured"
    /\ toolchain_options.usempi
    /\ "F77" \in DOMAIN environ /\ environ["F77"] = "mpif77"
    /\ "F77_SEQ" \in DOMAIN environ /\ environ["F77_SEQ"] = "gfortran"
    /\ Gained[3] = "--with-fc='gfortran'"

\* the value a variable contributes to a command line: nothing when unset
EnvText(var) == IF var \in DOMAIN environ THEN environ[var] ELSE ""

\* C2: for every state of CFLAGS (any value, empty, unset) the --with-opt
\* flag that configure_step appends is the existing CFLAGS value, a space,
\* then -DMPICH_IGNORE_CXX_SEEK.
C2_WithOptIsCflagsThenDefine ==
    Len(Gained) >= 7 =>
        Gained[7] = "--with-opt='" \o EnvText("CFLAGS")
                        \o " -DMPICH_IGNORE_CXX_SEEK'"

\* C3: when Python or Boost has no installation root, a configure_step that
\* has run has failed with a fatal error and the inherited configure logic
\* was never invoked; with Python missing PYTHON is not set; with Boost
\* missing no --with-boost flag was appended.
C3_MissingDependencyIsFatal ==
    (pc # "init" /\ (Missing("Python") \/ Missing("Boost"))) =>
        /\ pc = "failed"
        /\ error.type = "EasyBuildError"
        /\ CallsOf("configure_step") = << >>
        /\ Missing("Python") => "PYTHON" \notin DOMAIN environ
        /\ Missing("Boost") =>
              \A i \in 1..Len(Gained) : FlagName(Gained[i]) # "--with-boost"

C3_Witness ==
    /\ pc = "failed"
    /\ software_root["Boost"] = None
    /\ ~Missing("Python")
    /\ error.msg = "Boost module not loaded."
    /\ "PYTHON" \in DOMAIN environ
    /\ Len(Gained) = 7

\* where the build keeps, and the install tree receives, the two directories
BuildObj == builddir \o "/obj"

BuildSrc == builddir \o "/" \o LastOfStartDir

InstallObj == installdir \o "/obj"

InstallSrc == installdir \o "/" \o LastOfStartDir

HasCopy(f, dst, content) == dst \in DOMAIN f /\ f[dst] = content

\* C4: a step that takes install_step to completion leaves <installdir>/obj
\* and <installdir>/<last component of start_dir> in place, each with the
\* contents of its counterpart under builddir, and leaves those counterparts
\* as they were.
C4_InstallKeepsObjAndSources ==
    [][(pc = "built" /\ pc' = "installed") =>
          /\ psi_srcdir = Val(LastOfStartDir)
          /\ BuildObj \in DOMAIN fs /\ BuildSrc \in DOMAIN fs
          /\ HasCopy(fs', InstallObj, fs[BuildObj])
          /\ HasCopy(fs', InstallSrc, fs[BuildSrc])
          /\ HasCopy(fs', BuildObj, fs[BuildObj])
          /\ HasCopy(fs', BuildSrc, fs[BuildSrc])]_vars

C4_Witness ==
    /\ pc = "installed"
    /\ ec.start_dir = "/build/psi4.0b5/"
    /\ HasCopy(fs, "/sw/PSI/obj", "objects")
    /\ HasCopy(fs, "/sw/PSI/psi4.0b5", "sources")
    /\ HasCopy(fs, "/build/obj", "objects")
    /\ HasCopy(fs, "/build/psi4.0b5", "sources")

NineFlags ==
    <<"--with-cc", "--with-cxx", "--with-fc", "--with-libdirs", "--with-blas",
      "--with-lapack", "--with-opt", "--with-boost", "--with-plugins">>

\* opts is the easyconfig's options followed by exactly the nine flags
EndsWithNineFlags(opts) ==
    /\ Len(opts) = Before + 9
    /\ SubSeq(opts, 1, Before) = ec.configopts
    /\ \A i \in 1..9 : FlagName(opts[Before + i]) = NineFlags[i]

\* C5: after a successful configure_step configopts is what it held before
\* followed by exactly the nine flags, once each and in order, and the
\* inherited configure logic was invoked with all nine present.
C5_NineFlagsInOrder ==
    /\ pc \in {"configured", "built", "installed", "checked", "done"} =>
          /\ EndsWithNineFlags(cfg.configopts)
          /\ Len(CallsOf("configure_step")) = 1
    /\ \A i \in 1..Len(CallsOf("configure_step")) :
          EndsWithNineFlags(CallsOf("configure_step")[i].configopts)

C5_Witness ==
    /\ pc = "configured"
    /\ ec.configopts = <<"--with-plugins">>
    /\ Len(cfg.configopts) = 10
    /\ cfg.configopts[10] = "--with-plugins"
    /\ CallsOf("configure_step")[1].configopts = cfg.configopts

\* C6: whenever the inherited configure logic is invoked, PSI_OBJ_INSTALL_DIR
\* is <installdir>/obj and PSI_SRC_INSTALL_DIR is <installdir>/<last component
\* of start_dir> in the environment, and the copies install_step later
\* attempts go to exactly these two paths, in this order.
C6_ExportedPathsAreCopyTargets ==
    \A i \in 1..Len(CallsOf("configure_step")) :
        LET e == CallsOf("configure_step")[i].environ
            copies == CallsOf("copytree")
        IN /\ "PSI_OBJ_INSTALL_DIR" \in DOMAIN e
           /\ "PSI_SRC_INSTALL_DIR" \in DOMAIN e
           /\ e["PSI_OBJ_INSTALL_DIR"] = InstallObj
           /\ e["PSI_SRC_INSTALL_DIR"] = InstallSrc
           /\ Len(copies) <= 2
           /\ Len(copies) >= 1 => copies[1].dst = e["PSI_OBJ_INSTALL_DIR"]
           /\ Len(copies) >= 2 => copies[2].dst = e["PSI_SRC_INSTALL_DIR"]

C6_Witness ==
    /\ pc = "installed"
    /\ Len(CallsOf("copytree")) = 2
    /\ CallsOf("copytree")[2].dst = "/sw/PSI/psi4.0b5"
    /\ CallsOf("configure_step")[1].environ["PSI_SRC_INSTALL_DIR"]
          = "/sw/PSI/psi4.0b5"

\* C7: the inherited sanity check is handed exactly one required file,
\* bin/psi<M> with <M> the part of the version before its first dot, exactly
\* the two directories include and share/psi, and no other key.
C7_SanityPaths ==
    custom_paths # None =>
        LET cp == custom_paths[1] IN
        /\ DOMAIN cp = {"files", "dirs"}
        /\ Len(cp.files) = 1
        /\ \E n \in 0..Len(version) :
              /\ IsMajor(SubSeq(version, 1, n), version)
              /\ cp.files[1] = "bin/psi" \o SubSeq(version, 1, n)
        /\ cp.dirs = <<"include", "share/psi">>
        /\ CallsOf("sanity_check_step")[1].custom_paths = cp

C7_Witness ==
    /\ custom_paths # None
    /\ version = "10.2.1"
    /\ custom_paths[1].files = <<"bin/psi10">>

PsiDataDir == [stmt |-> "setenv", key |-> "PSI4DATADIR", value |-> "$root/share/psi"]

\* C8: the text make_module_extra returns is the inherited text, unchanged,
\* followed by exactly one statement, the assignment of PSI4DATADIR to
\* $root/share/psi.
C8_ModuleExtra ==
    module_txt # None =>
        LET parent == CallsOf("make_module_extra")[1].txt IN
        /\ Len(module_txt[1]) = Len(parent) + 1
        /\ SubSeq(module_txt[1], 1, Len(parent)) = parent
        /\ module_txt[1][Len(parent) + 1] = PsiDataDir

C8_Witness ==
    /\ module_txt # None
    /\ Len(module_txt[1]) = 3
    /\ module_txt[1][2].key = "PSI4DATADIR"
    /\ module_txt[1][3] = PsiDataDir

\* configure_step has just run and did not get into the object directory:
\* creating <builddir>/obj or changing into it failed
PrepareFailed == pc = "init" /\ pc' # "init" /\ cwd' # BuildObj

\* C9: a filesystem error is fatal to its step and nothing later in the step
\* happens. When <builddir>/obj exists already, or cannot be created or
\* entered, configure_step fails and leaves configopts, the environment and
\* the record of configure invocations as they were; a failed copy of obj is
\* the last copy install_step attempts; and every copy attempt comes after
\* the inherited install step has completed.
C9_FilesystemErrorsAreFatal ==
    /\ [][(pc = "init" /\ pc' # "init" /\ BuildObj \in DOMAIN fs)
             => PrepareFailed]_vars
    /\ [][PrepareFailed =>
             /\ pc' = "failed"
             /\ error'.type = "EasyBuildError"
             /\ StartsWith(error'.msg,
                           "Failed to prepare for configuration of PSI build: ")
             /\ cfg' = cfg
             /\ environ' = environ
             /\ calls' = calls]_vars
    /\ [](\A i \in 1..Len(calls) :
            calls[i].call = "copytree" =>
               /\ (calls[i].src = BuildObj /\ calls[i].exc # "none")
                     => (i = Len(calls) /\ pc = "failed")
               /\ \E j \in 1..(i - 1) :
                     calls[j].call = "install_step" /\ calls[j].ok)

C9_Witness ==
    /\ builds = 2
    /\ pc = "failed"
    /\ error.msg = "Failed to prepare for configuration of PSI build: File exists"
    /\ cfg.configopts = ec.configopts
    /\ DOMAIN environ \cap WrittenVars = {}
    /\ calls = << >>
    /\ HasCopy(fs, "/build/obj", "objects")

AllUnset ==
    psi_srcdir = None /\ install_psi_objdir = None /\ install_psi_srcdir = None

AllSet ==
    psi_srcdir # None /\ install_psi_objdir # None /\ install_psi_srcdir # None

\* C10: the three fields are None after initialisation; install_step is
\* reached only after configure_step has succeeded, and from then on all
\* three are set and neither install_step nor a later step modifies them.
C10_FieldsSetBeforeInstall ==
    /\ [](pc = "init" => AllUnset)
    /\ [](pc \in {"built", "installed", "checked", "done"} =>
            /\ AllSet
            /\ Len(CallsOf("configure_step")) = 1)
    /\ [][(pc \in {"built", "installed", "checked"}) =>
            (/\ psi_srcdir' = psi_srcdir
             /\ install_psi_objdir' = install_psi_objdir
             /\ install_psi_srcdir' = install_psi_srcdir)]_vars

C10_Witness ==
    /\ pc = "done"
    /\ builds = 2
    /\ psi_srcdir = Val("psi4.0b5")
    /\ install_psi_objdir = Val("/sw/PSI/obj")
    /\ install_psi_srcdir = Val("/sw/PSI/psi4.0b5")

====
